---- MODULE Spec2Model ----
(***************************************************************************)
(* Allergen Alert: the product detail page (ProductDetailPage), the lookup *)
(* route (GET /api/barcode), the entry form with its barcode lookup, its   *)
(* submission and its camera scanner (AllergenForm), the profile hook and  *)
(* editor (useUserProfile, UserProfileClient), also in two tabs, and the   *)
(* allergen report (AllergenReport, getAllergenIcon), as state machines.   *)
(*                                                                         *)
(* Text is modelled as a sequence of one-character strings where the code  *)
(* looks inside it (barcodes, detected names, keywords) and as an opaque   *)
(* string token where the code only tests it for emptiness or passes it on *)
(* (product names, ingredient texts, messages).  A JavaScript value that   *)
(* may be null is a sequence of length 0 (null) or 1 (the value).          *)
(***************************************************************************)
EXTENDS Integers, Sequences, FiniteSets, Bags, TLC

VARIABLES
    view,               \* what the browser shows: "home" | "product" | "api" |
                        \* "profile" | "error" (a render threw)
    barcode,            \* ProductDetailPage: params.barcode
    productInfo,        \* useState<ProductInfo | null>
    analysisResult,     \* useState<AnalyzeProductAllergensOutput | null>
    isLoadingProduct,
    isLoadingAnalysis,
    errorProduct,       \* string | null
    errorAnalysis,      \* string | null
    userAllergens,      \* useUserProfile state of the page's hook instance
    isProfileLoaded,
    storedProfile,      \* localStorage record 'allergenAlertUserProfile'
    lastWrite,          \* the storage writes of the mounted hook instance so far:
                        \* "none" made, all "ok", or some "failed"
    lookups,            \* requests to /api/barcode that have not returned
    analyses,           \* calls of analyzeProductAllergens that have not returned
    lateResult,         \* the client whose unmounted instance the last step delivered
                        \* a result to, or "none"
    analysisFailedFor,  \* the barcode of the analysis whose failure errorAnalysis
                        \* reports (null: none since the last analysis started)
    isCameraOpen,       \* AllergenForm state
    formBarcode,        \* form field "barcode"
    formProductName,    \* form field "productName"
    formIngredients,    \* form field "ingredients"
    formDescription,    \* form field "productDescription"
    isFetchingBarcode,
    barcodeError,
    barcodeWarning,
    lastFetchedBarcode, \* string | null
    lastFetchCall,      \* the argument of the last handleBarcodeFetch call
    formErrors,         \* the fields that show an inline error (formState.errors)
    submitPending,      \* a handleFormSubmit call awaits its handleBarcodeFetch
    onSubmitData,       \* the values the last step handed to onSubmit (null: none)
    hasCameraPermission, \* boolean | null
    cameraError,        \* string | null
    cameraStarting,     \* some getUserMedia call of startScanning has not settled
    routeRequest,       \* lookup route: the barcode of the request last answered
    routeUpstream,      \* what the upstream database did for it
    routeResponse,      \* the response the route gave
    allergensList,      \* AllergenReport: report.allergensList
    userProfileAllergenIds, \* AllergenReport: the prop of that name
    rendered,           \* AllergenReport: the list items rendered so far
    safeToConsume,      \* AllergenReport: report.safeToConsume
    instances,          \* two browser tabs with the profile editor: the state of
                        \* each one's useUserProfile instance
    kept                \* the ids an editor tab added and none removed afterwards

pageVars == <<barcode, productInfo, analysisResult, isLoadingProduct,
              isLoadingAnalysis, errorProduct, errorAnalysis, userAllergens,
              isProfileLoaded>>
formVars == <<isCameraOpen, formBarcode, formProductName, formIngredients,
              formDescription, isFetchingBarcode, barcodeError, barcodeWarning,
              lastFetchedBarcode, lastFetchCall, formErrors, submitPending,
              onSubmitData, hasCameraPermission, cameraError, cameraStarting>>
routeVars == <<routeRequest, routeUpstream, routeResponse>>
reportVars == <<allergensList, userProfileAllergenIds, rendered, safeToConsume>>
tabVars == <<instances, kept>>
vars == <<view, pageVars, storedProfile, lastWrite, lookups, analyses, lateResult,
          analysisFailedFor, formVars, routeVars, reportVars, tabVars>>

-----------------------------------------------------------------------------
(* Values *)

\* JavaScript null for a string-valued state, and undefined for an optional field.
null == "null"
undefined == "undefined"
\* JavaScript null for an object-valued state.
None == <<>>
Some(x) == <<x>>
Val(o) == o[1]

\* The most requests (lookups and analyses together) in flight at once.
MaxInFlight == 2

\* Barcode texts: empty, whitespace only, plain, and padded with whitespace.
Barcodes == {<<>>, <<" ">>, <<"1">>, <<"2">>, <<" ", "1", " ">>}

\* s without its first character.
Rest(s) == SubSeq(s, 2, Len(s))
\* s without its last character.
Front(s) == SubSeq(s, 1, Len(s) - 1)

-----------------------------------------------------------------------------
(* JavaScript helpers *)

\* A string is falsy when it is undefined, null or empty.
Truthy(s) == s \notin {undefined, null, ""}

\* a || b
OrElse(a, b) == IF Truthy(a) THEN a ELSE b

\* String.prototype.trim on a text: leading and trailing whitespace removed.
RECURSIVE TrimStart(_)
TrimStart(s) == IF s # <<>> /\ Head(s) = " " THEN TrimStart(Rest(s)) ELSE s
RECURSIVE TrimEnd(_)
TrimEnd(s) == IF s # <<>> /\ s[Len(s)] = " " THEN TrimEnd(Front(s)) ELSE s
Trim(s) == TrimEnd(TrimStart(s))

-----------------------------------------------------------------------------
(* The lookup route: GET /api/barcode  (src/app/api/barcode/route.ts) *)

\* Statuses the upstream database answers with.
UpstreamStatuses == {200, 404, 500, 503}

\* OpenFoodFactsProduct.product: every field is optional.  A name may be any
\* text, the text 'N/A' included.
Products ==
    [product_name_en     : {undefined, "", "Oat Crackers", "N/A"},
     product_name        : {undefined, "", "Haferkekse"},
     ingredients_text_en : {undefined, "", "oats, salt"},
     ingredients_text    : {undefined, "", "Hafer, Salz"},
     generic_name_en     : {undefined, "", "Crackers"},
     generic_name        : {undefined, "", "Kekse"}]

NoFields == [product_name_en |-> undefined, product_name |-> undefined,
             ingredients_text_en |-> undefined, ingredients_text |-> undefined,
             generic_name_en |-> undefined, generic_name |-> undefined]

\* What the upstream database does with one request.
\*   reachable = FALSE : fetch() throws (network failure)
\*   body "invalid"    : response.json() throws
\*   body "null"       : the body parses to null
\*   body "object"     : the body parses to {status, product?}; product is None
\*                       when the object has no (or a falsy) product
Unreachable == [reachable |-> FALSE, status |-> 200, body |-> "invalid",
                dataStatus |-> 0, product |-> None]
Answer(st, body, dataStatus, product) ==
    [reachable |-> TRUE, status |-> st, body |-> body,
     dataStatus |-> dataStatus, product |-> product]
UpstreamOutcomes ==
    {Unreachable}
    \cup {Answer(st, "invalid", 0, None) : st \in UpstreamStatuses}
    \cup {Answer(200, "null", 0, None)}
    \cup {Answer(200, "object", ds, None) : ds \in {0, 1}}
    \cup {Answer(200, "object", ds, Some(p)) : ds \in {0, 1}, p \in Products}

\* response.ok
Ok(status) == status >= 200 /\ status <= 299

\* The JSON body of a route response; a key the route does not send is undefined.
Body(error, productName, ingredients, productDescription, warning) ==
    [error |-> error, productName |-> productName, ingredients |-> ingredients,
     productDescription |-> productDescription, warning |-> warning]
ErrorBody(msg) == Body(msg, undefined, undefined, undefined, undefined)

BarcodeRequiredMsg == "Barcode query parameter is required"
UpstreamFailedMsg == "Failed to fetch product data from Open Food Facts."
NotFoundMsg == "Product not found in Open Food Facts."
UnexpectedMsg == "Error while fetching product data. Please try again or enter details manually."
MissingIngredientsWarning == "Product found, but ingredients list is missing from the database. Please enter ingredients manually."

Response(upstreamCalled, status, body) ==
    [upstreamCalled |-> upstreamCalled, status |-> status, body |-> body]

\* NameOf preferring the default-locale name.
NameOfDefaultFirst(product) ==
    OrElse(OrElse(product.product_name, product.product_name_en), "N/A")

\* Prefer English names if available, otherwise use the default (lines 52-55).
NameOf(product) == OrElse(OrElse(product.product_name_en, product.product_name), "N/A")
IngredientsOf(product) == OrElse(OrElse(product.ingredients_text_en, product.ingredients_text), "")
DescriptionOf(product) == OrElse(OrElse(product.generic_name_en, product.generic_name), undefined)

\* IsPartialEntry with the comparison of the name inverted.
IsPartialEntryInverted(productName, ingredients) == ingredients = "" /\ productName = "N/A"

\* The partial entry: ingredients empty but a product name found (line 57).
IsPartialEntry(productName, ingredients) == ingredients = "" /\ productName # "N/A"

\* The success response for a product (lines 50-72).
ProductResponse(product) ==
    LET productName == NameOf(product)
        ingredients == IngredientsOf(product)
        productDescription == DescriptionOf(product)
    IN  IF IsPartialEntry(productName, ingredients)
        THEN Response(TRUE, 200, Body(undefined, productName, "", productDescription,
                                      MissingIngredientsWarning))
        ELSE Response(TRUE, 200, Body(undefined, productName, ingredients,
                                      productDescription, undefined))

\* UpstreamErrorStatus answering every upstream error with 500.
UpstreamErrorStatusFixed(status) == 500

\* The status of the answer to an upstream response that is not ok (line 41).
UpstreamErrorStatus(status) == status

\* NoProduct with the status test left out.
NoProductObjectOnly(up) == up.product = None

\* No product for the barcode (line 46).
NoProduct(up) == up.dataStatus = 0 \/ up.product = None

\* `if (!barcode)` (line 23): the parameter is absent (null) or empty.
MissingBarcode(b) == b = <<>>

\* GET: the response to a request with query parameter `barcode`, when the
\* upstream database behaves as `up`.
GET(b, up) ==
    IF MissingBarcode(b) THEN Response(FALSE, 400, ErrorBody(BarcodeRequiredMsg))
    ELSE IF ~up.reachable THEN Response(TRUE, 500, ErrorBody(UnexpectedMsg))
    ELSE IF ~Ok(up.status)
         THEN Response(TRUE, UpstreamErrorStatus(up.status), ErrorBody(UpstreamFailedMsg))
    ELSE IF up.body \in {"invalid", "null"} THEN Response(TRUE, 500, ErrorBody(UnexpectedMsg))
    ELSE IF NoProduct(up) THEN Response(TRUE, 404, ErrorBody(NotFoundMsg))
    ELSE ProductResponse(Val(up.product))

\* A request reaches the route and is answered.
RouteGET(b, up) ==
    /\ routeRequest' = b
    /\ routeUpstream' = Some(up)
    /\ routeResponse' = Some(GET(b, up))

-----------------------------------------------------------------------------
(* Requests in flight *)

\* A request to /api/barcode issued by a client component.  live is FALSE once
\* the component instance that issued it is unmounted: React drops the state
\* updates of an unmounted component.
LookupRequest(client, b) == [client |-> client, barcode |-> b, live |-> TRUE]

\* The requests in flight are a bag: they return in any order.
Issue(pending, item) == pending (+) SetToBag({item})
Settle(pending, item) == pending (-) SetToBag({item})

\* The requests of `client` lose their component.
Orphaned(item) == [item EXCEPT !.live = FALSE]
Orphan(pending, client) ==
    BagOfAll(LAMBDA item : IF item.client = client THEN Orphaned(item) ELSE item, pending)
OrphanAll(pending) == BagOfAll(Orphaned, pending)

InFlight == BagCardinality(lookups) + BagCardinality(analyses)

\* UpdatesApply for state that would outlive its component.
UpdatesApplyAlways(item) == TRUE

\* Whether the state updates made on behalf of request `item` take effect.
UpdatesApply(item) == item.live

\* What the upstream database does in the application runs: an error status,
\* no product, a full product, a product without ingredients, a product
\* without a name.
FullProduct == [NoFields EXCEPT !.product_name_en = "Oat Crackers",
                                !.ingredients_text_en = "oats, salt"]
NameOnlyProduct == [NoFields EXCEPT !.product_name = "Haferkekse"]
NamelessProduct == [NoFields EXCEPT !.ingredients_text = "Hafer, Salz"]
ClientUpstream ==
    {Answer(503, "invalid", 0, None), Answer(200, "object", 0, None),
     Answer(200, "object", 1, Some(FullProduct)),
     Answer(200, "object", 1, Some(NameOnlyProduct)),
     Answer(200, "object", 1, Some(NamelessProduct))}

\* What a client's fetch of /api/barcode yields: the route's response, or
\* None when fetch itself throws.
FetchOutcomes(b) == {None} \cup {Some(GET(b, up)) : up \in ClientUpstream}

-----------------------------------------------------------------------------
(* The profile hook as the product page uses it (useUserProfile) *)

\* The persisted record: None when the key is absent (getItem returns null),
\* otherwise Some(text).  A text is a sequence of tokens: the JSON punctuation
\* [ ] , " { }, the word null, and the characters between two quotes as one
\* token.

\* JSON.stringify of an array of strings (line 32).
RECURSIVE StringifyItems(_)
StringifyItems(ids) ==
    IF ids = <<>> THEN <<>>
    ELSE IF Len(ids) = 1 THEN <<"\"", ids[1], "\"">>
    ELSE <<"\"", ids[1], "\"", ",">> \o StringifyItems(Rest(ids))
Stringify(ids) == <<"[">> \o StringifyItems(ids) \o <<"]">>

JSONPunctuation == {"[", "]", ",", "\"", "{", "}", "null"}

\* JSON.parse (line 22) of the elements of an array of strings.
RECURSIVE ParseItems(_)
ParseItems(t) ==
    IF Len(t) >= 3 /\ t[1] = "\"" /\ t[2] \notin JSONPunctuation /\ t[3] = "\""
    THEN IF Len(t) = 3 THEN [ok |-> TRUE, items |-> <<t[2]>>]
         ELSE IF Len(t) > 4 /\ t[4] = ","
              THEN LET r == ParseItems(SubSeq(t, 5, Len(t)))
                   IN  [ok |-> r.ok, items |-> <<t[2]>> \o r.items]
              ELSE [ok |-> FALSE, items |-> <<>>]
    ELSE [ok |-> FALSE, items |-> <<>>]

\* JSON.parse (line 22): the value parsed, or ok = FALSE when it throws.
JSONValue(ok, type, items) == [ok |-> ok, type |-> type, items |-> items]
ParseJSON(text) ==
    IF text = <<"null">> THEN JSONValue(TRUE, "null", <<>>)
    ELSE IF text = <<"{", "}">> THEN JSONValue(TRUE, "object", <<>>)
    ELSE IF Len(text) >= 2 /\ text[1] = "[" /\ text[Len(text)] = "]"
         THEN IF Len(text) = 2 THEN JSONValue(TRUE, "array", <<>>)
              ELSE LET r == ParseItems(SubSeq(text, 2, Len(text) - 1))
                   IN  JSONValue(r.ok, "array", r.items)
    ELSE JSONValue(FALSE, "undefined", <<>>)

\* The load effect (lines 18-28): the value userAllergens holds after it ran.
\* An absent or empty record and a text that does not parse leave the initial
\* []; any value that parses is stored as it is.
LoadedValue(stored) ==
    IF stored = None \/ Val(stored) = <<>> THEN JSONValue(TRUE, "array", <<>>)
    ELSE LET v == ParseJSON(Val(stored))
         IN  IF v.ok THEN v ELSE JSONValue(TRUE, "array", <<>>)

\* The list the hook holds after the load effect, for a record that holds an
\* array or nothing.
LoadProfile(stored) == LoadedValue(stored).items

\* The records the runs of the product page start from.
StoredProfiles == {None, Some(Stringify(<<"milk", "soy">>))}

\* The ids the profile editor offers (COMMON_ALLERGENS_PROFILE, lines 10-19).
ProfileIds == {"milk", "soy", "eggs"}

\* prev.includes(allergenId)
Includes(list, id) == \E i \in DOMAIN list : list[i] = id

\* The updater of addUserAllergen without the includes test.
AddedAlways(prev, id) == Append(prev, id)

\* The updater of addUserAllergen (lines 39-46): the new list.
Added(prev, id) == IF ~Includes(prev, id) THEN Append(prev, id) ELSE prev

\* The updater of removeUserAllergen (lines 50-54): the new list.
Removed(prev, id) == SelectSeq(prev, LAMBDA item : item # id)

\* Array.prototype.join: the elements with sep between them, as a text of chunks.
RECURSIVE Join(_, _)
Join(ids, sep) ==
    IF ids = <<>> THEN <<>>
    ELSE IF Len(ids) = 1 THEN <<ids[1]>>
    ELSE <<ids[1], sep>> \o Join(Rest(ids), sep)

\* getSerializedProfile joining with a blank only.
getSerializedProfileBlank(ids) == Join(ids, " ")

\* getSerializedProfile (lines 61-63)
getSerializedProfile(ids) == Join(ids, ", ")

\* Stringify writing the ids joined by commas instead of JSON.
StringifyJoined(ids) == Join(ids, ",")

\* The text saveProfile writes (line 32).
Stringified(ids) == Stringify(ids)

\* saveProfile (lines 30-36): setItem stores the text, or throws and the
\* error is logged (writeOk = FALSE).
saveProfile(allergens, writeOk) ==
    /\ storedProfile' = IF writeOk THEN Some(Stringified(allergens)) ELSE storedProfile
    /\ lastWrite' = IF writeOk /\ lastWrite # "failed" THEN "ok" ELSE "failed"

\* Two browser tabs show the profile editor; each has its own instance of
\* the hook, and both share the stored record.
Tabs == {1, 2}

\* The ids of the stored record.
RecordIds == {LoadProfile(storedProfile)[i] : i \in DOMAIN LoadProfile(storedProfile)}

\* The steps of the editor tabs leave the rest of the application alone.
TabStep ==
    UNCHANGED <<view, pageVars, lastWrite, lookups, analyses, lateResult,
                analysisFailedFor, formVars, routeVars, reportVars>>

\* The load effect of the instance of tab t (lines 18-28).
TabLoad(t) ==
    /\ ~instances[t].isProfileLoaded
    /\ instances' = [instances EXCEPT ![t] =
           [userAllergens |-> LoadProfile(storedProfile), isProfileLoaded |-> TRUE]]
    /\ UNCHANGED <<storedProfile, kept>>
    /\ TabStep

\* addUserAllergen(id) in tab t (lines 38-47); the editor is shown once the
\* profile is loaded, and the write succeeds.
TabAdd(t, id) ==
    /\ instances[t].isProfileLoaded
    /\ LET prev == instances[t].userAllergens
       IN  /\ instances' = [instances EXCEPT ![t].userAllergens = Added(prev, id)]
           /\ storedProfile' = IF ~Includes(prev, id)
                                THEN Some(Stringified(Added(prev, id)))
                                ELSE storedProfile
    /\ kept' = kept \cup {id}
    /\ TabStep

\* removeUserAllergen(id) in tab t (lines 49-55); the write succeeds.
TabRemove(t, id) ==
    /\ instances[t].isProfileLoaded
    /\ LET prev == instances[t].userAllergens
       IN  /\ instances' = [instances EXCEPT ![t].userAllergens = Removed(prev, id)]
           /\ storedProfile' = Some(Stringified(Removed(prev, id)))
    /\ kept' = kept \ {id}
    /\ TabStep

-----------------------------------------------------------------------------
(* The product detail page (ProductDetailPage) *)

PageBarcodes == {<<>>, <<"1">>, <<"2">>}

NoBarcodeMsg == "No barcode provided."
FetchFailedMsg == "Failed to fetch"
FetchStatusMsg == "Failed to fetch product data."
MissingDataMsg == "Product name or ingredients are missing. Cannot perform allergen analysis."
AnalysisFailedMsg == "Allergen analysis failed."

\* What analyzeProductAllergens returns: any triple of the output schema.
AnalysisResults ==
    [containsAllergens : BOOLEAN, safeToConsume : BOOLEAN,
     allergensList : {<<>>, <<"Milk">>}]
\* ... or None when the call throws.
AnalysisOutcomes == {None} \cup {Some(r) : r \in AnalysisResults}

\* { ...data, barcode } (line 57)
ProductInfoOf(data, b) ==
    [productName |-> data.productName, ingredients |-> data.ingredients,
     productDescription |-> data.productDescription, warning |-> data.warning,
     barcode |-> b]

\* The input of the analysis (lines 92-98).
AnalysisInput(info, ids) ==
    [productName |-> info.productName, ingredients |-> info.ingredients,
     allergensProfile |-> getSerializedProfile(ids), barcode |-> info.barcode,
     productDescription |-> info.productDescription]

\* MissingData with the ingredients test left out.
MissingDataNameOnly(info) == ~Truthy(info.productName)

\* `!productInfo.productName || !productInfo.ingredients` (line 71)
MissingData(info) == ~Truthy(info.productName) \/ ~Truthy(info.ingredients)

\* The state of a page instance before its effects ran (lines 30-35).
PageState ==
    /\ barcode' = <<>>
    /\ productInfo' = None
    /\ analysisResult' = None
    /\ isLoadingProduct' = TRUE
    /\ isLoadingAnalysis' = FALSE
    /\ errorProduct' = null
    /\ errorAnalysis' = null
    /\ analysisFailedFor' = None

\* ... with the state of its profile hook (line 37).
PageUnmounted ==
    /\ PageState
    /\ userAllergens' = <<>>
    /\ isProfileLoaded' = FALSE

\* The fetch effect (lines 40-67) for barcode b, up to its await; `pending`
\* are the requests in flight before it.
FetchEffect(b, pending) ==
    IF ~(b # <<>>)
    THEN /\ errorProduct' = NoBarcodeMsg
         /\ isLoadingProduct' = FALSE
         /\ lookups' = pending
    ELSE /\ isLoadingProduct' = TRUE
         /\ errorProduct' = null
         /\ lookups' = Issue(pending, LookupRequest("page", b))

\* The analysis effect (lines 69-126) for the product info `info` (None: null),
\* up to the await of runAnalysis.
AnalysisEffect(info, loaded, ids) ==
    IF info # None /\ loaded
    THEN IF MissingData(Val(info))
         THEN /\ errorAnalysis' = MissingDataMsg
              /\ UNCHANGED <<isLoadingAnalysis, analysisResult, analyses, analysisFailedFor>>
         ELSE /\ isLoadingAnalysis' = TRUE
              /\ errorAnalysis' = null
              /\ analysisFailedFor' = None
              /\ analysisResult' = None
              /\ analyses' = Issue(analyses,
                    [input |-> AnalysisInput(Val(info), ids), live |-> TRUE])
    ELSE UNCHANGED <<isLoadingAnalysis, errorAnalysis, analysisResult, analyses,
                     analysisFailedFor>>

\* userAllergens holds an array.  userAllergens models the items; the page
\* never writes the record, so under a mounted page the value its hook
\* loaded is an array exactly when the record parses to one (or to nothing).
HoldsArray == LoadedValue(storedProfile).type = "array"

\* The analysis effect throws: getSerializedProfile() calls userAllergens.join
\* (line 83, part_007 line 62) outside any try, a TypeError for a value that
\* is not an array.
AnalysisEffectThrows(info, loaded) ==
    info # None /\ loaded /\ ~MissingData(Val(info)) /\ ~HoldsArray

\* A page instance mounts for /product/<b>: the first render and the effects
\* of the first commit (profile load, fetch effect, analysis effect).
PageMount(b, pending) ==
    /\ barcode' = b
    /\ userAllergens' = LoadProfile(storedProfile)
    /\ isProfileLoaded' = TRUE
    /\ productInfo' = None
    /\ FetchEffect(b, pending)
    /\ AnalysisEffect(None, TRUE, LoadProfile(storedProfile))

\* The answer to a lookup of the page arrives (lines 51-63), followed by the
\* analysis effect when productInfo changed.
PageLookupResult(item, out) ==
    IF out # None /\ Ok(Val(out).status)
    THEN /\ productInfo' = Some(ProductInfoOf(Val(out).body, item.barcode))
         /\ isLoadingProduct' = FALSE
         /\ UNCHANGED errorProduct
         /\ AnalysisEffect(productInfo', isProfileLoaded, userAllergens)
    ELSE /\ errorProduct' = IF out = None THEN FetchFailedMsg
                            ELSE OrElse(Val(out).body.error, FetchStatusMsg)
         /\ isLoadingProduct' = FALSE
         /\ UNCHANGED <<productInfo, isLoadingAnalysis, errorAnalysis,
                        analysisResult, analyses, analysisFailedFor>>

\* analyzeProductAllergens returns or throws (lines 105-122).
PageAnalysisResult(item, out) ==
    /\ IF out # None
       THEN analysisResult' = out /\ UNCHANGED <<errorAnalysis, analysisFailedFor>>
       ELSE /\ errorAnalysis' = AnalysisFailedMsg
            /\ analysisFailedFor' = Some(item.input.barcode)
            /\ UNCHANGED analysisResult
    /\ isLoadingAnalysis' = FALSE

\* What the page renders (lines 128-251): the loading screen, the lookup
\* error, 'Product Not Found', or the product card with the analysis blocks.
PageScreen ==
    IF isLoadingProduct THEN "loading"
    ELSE IF Truthy(errorProduct) THEN "errorProduct"
    ELSE IF productInfo = None THEN "notFound"
    ELSE "product"

\* The destructive 'Allergen Analysis Error' alert (lines 225-231).
ShowsAnalysisError == PageScreen = "product" /\ Truthy(errorAnalysis)

\* The AllergenReport (lines 233-235).
ShowsReport == PageScreen = "product" /\ ~isLoadingAnalysis /\ analysisResult # None

\* The 'Analysis Not Performed' alert (lines 236-242).
ShowsAnalysisNotPerformed ==
    /\ PageScreen = "product"
    /\ ~isLoadingAnalysis
    /\ analysisResult = None
    /\ ~Truthy(errorAnalysis)
    /\ (~Truthy(Val(productInfo).ingredients) \/ ~Truthy(Val(productInfo).productName))

-----------------------------------------------------------------------------
(* The entry form (AllergenForm): the barcode lookup *)

FormFetchErrorMsg == "An error occurred fetching barcode data. Please enter details manually."
FormFetchFailedMsg == "Failed to fetch barcode data. Please enter details manually."

\* The form as useForm and useState create it (lines 32-51).
FormMounted ==
    /\ isCameraOpen' = FALSE
    /\ formBarcode' = <<>>
    /\ formProductName' = ""
    /\ formIngredients' = ""
    /\ formDescription' = ""
    /\ isFetchingBarcode' = FALSE
    /\ barcodeError' = null
    /\ barcodeWarning' = null
    /\ lastFetchedBarcode' = None
    /\ lastFetchCall' = None
    /\ formErrors' = {}
    /\ submitPending' = FALSE
    /\ onSubmitData' = None
    /\ hasCameraPermission' = None
    /\ cameraError' = null
    /\ cameraStarting' = FALSE

\* BlankBarcode without the trim.
BlankBarcodeNoTrim(b) == b = <<>>

\* `!barcodeToFetch.trim()` (line 54)
BlankBarcode(b) == Trim(b) = <<>>

\* handleBarcodeFetch(barcodeToFetch) up to its await (lines 53-64).
handleBarcodeFetch(b) ==
    /\ lastFetchCall' = Some(b)
    /\ barcodeError' = null
    /\ barcodeWarning' = null
    /\ IF BlankBarcode(b)
       THEN /\ lastFetchedBarcode' = None
            /\ UNCHANGED <<isFetchingBarcode, lookups>>
       ELSE /\ isFetchingBarcode' = TRUE
            /\ lookups' = Issue(lookups, LookupRequest("form", b))
            /\ UNCHANGED lastFetchedBarcode

\* String.prototype.trim on an opaque text: the text of blanks only, " ",
\* becomes empty; the other texts have no blanks at their ends.
TrimText(t) == IF t = " " THEN "" ELSE t

\* form.getValues()
FormValues ==
    [barcode |-> formBarcode, productName |-> formProductName,
     ingredients |-> formIngredients, productDescription |-> formDescription]

\* zodResolver(allergenFormSchema) (lines 17-22): the fields that fail.  Only
\* ingredients has a rule, min(1).
SchemaErrors(ingredients) == IF ingredients = "" THEN {"ingredients"} ELSE {}

\* The failure branches clearing the fields.
FormLookupFailureClearing(message) ==
    /\ barcodeError' = message
    /\ lastFetchedBarcode' = None
    /\ formProductName' = ""
    /\ formIngredients' = ""
    /\ formDescription' = ""
    /\ UNCHANGED barcodeWarning

\* The failure branches of handleBarcodeFetch (lines 88-97): the fields are
\* not touched.
FormLookupFailure(message) ==
    /\ barcodeError' = message
    /\ lastFetchedBarcode' = None
    /\ UNCHANGED <<formProductName, formIngredients, formDescription, barcodeWarning>>

\* handleBarcodeFetch after its await (lines 64-100).
FormLookupResult(item, out) ==
    /\ IF out = None
       THEN FormLookupFailure(FormFetchErrorMsg)
       ELSE IF Ok(Val(out).status)
       THEN /\ formProductName' = OrElse(Val(out).body.productName, "")
            /\ formIngredients' = OrElse(Val(out).body.ingredients, "")
            /\ formDescription' = OrElse(Val(out).body.productDescription, "")
            /\ lastFetchedBarcode' = Some(item.barcode)
            /\ barcodeWarning' = IF Truthy(Val(out).body.warning)
                                 THEN Val(out).body.warning ELSE null
            /\ UNCHANGED barcodeError
       ELSE FormLookupFailure(OrElse(Val(out).body.error, FormFetchFailedMsg))
    /\ isFetchingBarcode' = FALSE

\* `response.ok` of an answer that arrived (line 67)
LookupSucceeds(out) == out # None /\ Ok(Val(out).status)

\* The manual checks of handleFormSubmit (lines 246-264): the fields that
\* get an error.
ManualErrors(productName, ingredients) ==
    (IF ~Truthy(TrimText(productName)) THEN {"productName"} ELSE {}) \cup
    (IF ~Truthy(TrimText(ingredients)) THEN {"ingredients"} ELSE {})

\* Validate handing the values over whatever the checks say.
ValidateAlwaysSubmitting(values) ==
    /\ formErrors' = ManualErrors(values.productName, values.ingredients)
    /\ onSubmitData' = Some(values)

\* The end of handleFormSubmit (lines 245-267) for the values the form
\* holds then: setError / clearErrors per field, and onSubmit(form.getValues())
\* when no check failed.  (AllergenAlertApp passes no onSubmit: the call
\* itself then throws in the async handler and changes no state.)
Validate(values) ==
    /\ formErrors' = ManualErrors(values.productName, values.ingredients)
    /\ onSubmitData' = IF ManualErrors(values.productName, values.ingredients) = {}
                       THEN Some(values) ELSE None

\* `currentBarcode && (currentBarcode !== lastFetchedBarcode ||
\*  !currentProductName || !currentIngredients)` (line 234)
SubmitLooksUp(currentBarcode) ==
    /\ currentBarcode # <<>>
    /\ \/ Some(currentBarcode) # lastFetchedBarcode
       \/ ~Truthy(TrimText(formProductName))
       \/ ~Truthy(TrimText(formIngredients))

-----------------------------------------------------------------------------
(* The allergen report (AllergenReport) and the keyword table (constants.ts) *)
(* Names and keywords are texts the code looks inside: sequences of         *)
(* one-character strings.                                                   *)

\* The most detected allergens in one report.
MaxDetected == 3

UpperCaseLetters == <<"A", "B", "C", "D", "E", "F", "G", "H", "I", "J", "K", "L", "M", "N", "O", "P", "Q", "R", "S", "T", "U", "V", "W", "X", "Y", "Z">>
LowerCaseLetters == <<"a", "b", "c", "d", "e", "f", "g", "h", "i", "j", "k", "l", "m", "n", "o", "p", "q", "r", "s", "t", "u", "v", "w", "x", "y", "z">>

\* String.prototype.toLowerCase, one character
LowerChar(c) ==
    IF \E i \in DOMAIN UpperCaseLetters : UpperCaseLetters[i] = c
    THEN LowerCaseLetters[CHOOSE i \in DOMAIN UpperCaseLetters : UpperCaseLetters[i] = c]
    ELSE c

\* String.prototype.toLowerCase
ToLowerCase(text) == [i \in DOMAIN text |-> LowerChar(text[i])]

\* String.prototype.includes: key occurs in text as a substring
StringIncludes(text, key) ==
    \E i \in 0..(Len(text) - Len(key)) : SubSeq(text, i + 1, i + Len(key)) = key

\* text.split(' ')[0]: the characters before the first blank
FirstToken(text) ==
    IF \E i \in DOMAIN text : text[i] = " "
    THEN SubSeq(text, 1, (CHOOSE i \in DOMAIN text :
                            text[i] = " " /\ \A j \in 1..(i - 1) : text[j] # " ") - 1)
    ELSE text

\* COMMON_ALLERGENS_PROFILE (constants.ts lines 10-19)
COMMON_ALLERGENS_PROFILE ==
    <<[id |-> "peanuts", name |-> <<"P", "e", "a", "n", "u", "t", "s">>],
      [id |-> "treeNuts", name |-> <<"T", "r", "e", "e", " ", "N", "u", "t", "s">>],
      [id |-> "milk", name |-> <<"M", "i", "l", "k", " ", "(", "D", "a", "i", "r", "y", ")">>],
      [id |-> "eggs", name |-> <<"E", "g", "g", "s">>],
      [id |-> "soy", name |-> <<"S", "o", "y">>],
      [id |-> "wheat", name |-> <<"W", "h", "e", "a", "t", " ", "(", "G", "l", "u", "t", "e", "n", ")">>],
      [id |-> "fish", name |-> <<"F", "i", "s", "h">>],
      [id |-> "shellfish", name |-> <<"S", "h", "e", "l", "l", "f", "i", "s", "h">>]>>

\* allergenIcons (constants.ts lines 21-59), the keys in declaration order.
\* No statement of the program writes to the table.
allergenIcons ==
    <<[key |-> <<"p", "e", "a", "n", "u", "t", "s">>, icon |-> "Nut"],
      [key |-> <<"p", "e", "a", "n", "u", "t">>, icon |-> "Nut"],
      [key |-> <<"t", "r", "e", "e", " ", "n", "u", "t", "s">>, icon |-> "Nut"],
      [key |-> <<"n", "u", "t", "s">>, icon |-> "Nut"],
      [key |-> <<"a", "l", "m", "o", "n", "d">>, icon |-> "Nut"],
      [key |-> <<"w", "a", "l", "n", "u", "t">>, icon |-> "Nut"],
      [key |-> <<"c", "a", "s", "h", "e", "w">>, icon |-> "Nut"],
      [key |-> <<"p", "e", "c", "a", "n">>, icon |-> "Nut"],
      [key |-> <<"p", "i", "s", "t", "a", "c", "h", "i", "o">>, icon |-> "Nut"],
      [key |-> <<"h", "a", "z", "e", "l", "n", "u", "t">>, icon |-> "Nut"],
      [key |-> <<"m", "a", "c", "a", "d", "a", "m", "i", "a">>, icon |-> "Nut"],
      [key |-> <<"m", "i", "l", "k">>, icon |-> "Milk"],
      [key |-> <<"d", "a", "i", "r", "y">>, icon |-> "Milk"],
      [key |-> <<"l", "a", "c", "t", "o", "s", "e">>, icon |-> "Milk"],
      [key |-> <<"c", "h", "e", "e", "s", "e">>, icon |-> "Milk"],
      [key |-> <<"y", "o", "g", "u", "r", "t">>, icon |-> "Milk"],
      [key |-> <<"b", "u", "t", "t", "e", "r">>, icon |-> "Milk"],
      [key |-> <<"e", "g", "g", "s">>, icon |-> "Egg"],
      [key |-> <<"e", "g", "g">>, icon |-> "Egg"],
      [key |-> <<"s", "o", "y">>, icon |-> "Bean"],
      [key |-> <<"s", "o", "y", "b", "e", "a", "n">>, icon |-> "Bean"],
      [key |-> <<"t", "o", "f", "u">>, icon |-> "Bean"],
      [key |-> <<"e", "d", "a", "m", "a", "m", "e">>, icon |-> "Bean"],
      [key |-> <<"w", "h", "e", "a", "t">>, icon |-> "Wheat"],
      [key |-> <<"g", "l", "u", "t", "e", "n">>, icon |-> "Wheat"],
      [key |-> <<"b", "a", "r", "l", "e", "y">>, icon |-> "Wheat"],
      [key |-> <<"r", "y", "e">>, icon |-> "Wheat"],
      [key |-> <<"f", "i", "s", "h">>, icon |-> "Fish"],
      [key |-> <<"s", "a", "l", "m", "o", "n">>, icon |-> "Fish"],
      [key |-> <<"t", "u", "n", "a">>, icon |-> "Fish"],
      [key |-> <<"c", "o", "d">>, icon |-> "Fish"],
      [key |-> <<"s", "h", "e", "l", "l", "f", "i", "s", "h">>, icon |-> "Shell"],
      [key |-> <<"s", "h", "r", "i", "m", "p">>, icon |-> "Shell"],
      [key |-> <<"c", "r", "a", "b">>, icon |-> "Shell"],
      [key |-> <<"l", "o", "b", "s", "t", "e", "r">>, icon |-> "Shell"],
      [key |-> <<"m", "o", "l", "l", "u", "s", "c", "s">>, icon |-> "Shell"],
      [key |-> <<"d", "e", "f", "a", "u", "l", "t">>, icon |-> "HelpCircle"]>>

DefaultKey == <<"d", "e", "f", "a", "u", "l", "t">>

\* allergenIcons[key]: undefined for a key the table does not have
IconOf(table, key) ==
    IF \E i \in DOMAIN table : table[i].key = key
    THEN table[CHOOSE i \in DOMAIN table : table[i].key = key].icon
    ELSE undefined

\* IconScan returning the entry of the last keyword that occurs.
RECURSIVE IconScanLast(_, _)
IconScanLast(entries, lower) ==
    IF entries = <<>> THEN None
    ELSE IF StringIncludes(lower, entries[Len(entries)].key)
         THEN Some(entries[Len(entries)].icon)
         ELSE IconScanLast(Front(entries), lower)

\* `for (const key in allergenIcons) if (lower.includes(key)) return ...`
\* (lines 63-67): the keys in declaration order; None when the loop ends.
RECURSIVE IconScan(_, _)
IconScan(entries, lower) ==
    IF entries = <<>> THEN None
    ELSE IF StringIncludes(lower, entries[1].key)
         THEN Some(entries[1].icon)
         ELSE IconScan(Rest(entries), lower)

\* The fallback being undefined.
FallbackUndefined(table) == undefined

\* `return allergenIcons['default']` (line 68)
Fallback(table) == IconOf(table, DefaultKey)

\* getAllergenIcon answering with the icon of the item rendered before, when
\* that item had another name.
getAllergenIconOfPrevious(allergenName) ==
    LET found == IconScan(allergenIcons, ToLowerCase(allergenName))
    IN  IF rendered # <<>> /\ allergensList[Len(rendered)] # allergenName
        THEN rendered[Len(rendered)].icon
        ELSE IF found # None THEN Val(found) ELSE Fallback(allergenIcons)

\* getAllergenIcon (lines 61-69)
getAllergenIcon(allergenName) ==
    LET found == IconScan(allergenIcons, ToLowerCase(allergenName))
    IN  IF found # None THEN Val(found) ELSE Fallback(allergenIcons)

\* FirstToken taking the whole display name.
ProfileTokenWholeName(profileAllergen) == ToLowerCase(profileAllergen.name)

\* `profileAllergen.name.split(' ')[0].toLowerCase()` (line 69)
ProfileToken(profileAllergen) == ToLowerCase(FirstToken(profileAllergen.name))

\* isUserAllergicToDetected (AllergenAlertApp.tsx lines 63-71)
isUserAllergicToDetected(allergenName) ==
    LET lowerAllergenName == ToLowerCase(allergenName)
    IN  \E i \in DOMAIN COMMON_ALLERGENS_PROFILE :
            /\ Includes(userProfileAllergenIds, COMMON_ALLERGENS_PROFILE[i].id)
            /\ StringIncludes(lowerAllergenName, ProfileToken(COMMON_ALLERGENS_PROFILE[i]))

\* The detected names of the reports rendered.
DetectedNames ==
    {<<"M", "i", "l", "k">>,
     <<"S", "o", "y">>,
     <<"w", "h", "o", "l", "e", " ", "m", "i", "l", "k", " ", "p", "o", "w", "d", "e", "r">>,
     <<"S", "h", "e", "l", "l", "f", "i", "s", "h">>,
     <<"P", "E", "A", "N", "U", "T", " ", "B", "u", "t", "t", "e", "r">>,
     <<"T", "r", "e", "e", " ", "N", "u", "t", "s">>,
     <<"S", "e", "s", "a", "m", "e">>,
     <<"H", "a", "r", "d", "-", "b", "o", "i", "l", "e", "d", " ", "E", "G", "G">>,
     <<>>}

\* The lists of at most n detected names.
RECURSIVE DetectedLists(_)
DetectedLists(n) ==
    IF n = 0 THEN {<<>>}
    ELSE DetectedLists(n - 1) \cup
         {Append(list, name) : list \in {l \in DetectedLists(n - 1) : Len(l) = n - 1},
                               name \in DetectedNames}

\* The profiles the reports are rendered for.
ReportProfiles == {<<>>, <<"milk">>, <<"soy", "eggs">>, <<"treeNuts", "shellfish">>}

\* No report is being rendered.
ReportIdle ==
    /\ allergensList = <<>>
    /\ userProfileAllergenIds = <<>>
    /\ rendered = <<>>
    /\ safeToConsume = FALSE

\* The banner of the report (lines 77-88), from report.safeToConsume alone.
Banner == IF safeToConsume THEN "safe" ELSE "warning"

\* One step of report.allergensList.map (lines 93-111): the next list item is
\* rendered with its icon and its profile-match mark.
RenderItem ==
    /\ Len(rendered) < Len(allergensList)
    /\ LET allergen == allergensList[Len(rendered) + 1]
       IN  rendered' = Append(rendered,
               [icon |-> getAllergenIcon(allergen),
                isUserAllergic |-> isUserAllergicToDetected(allergen)])
    /\ UNCHANGED <<allergensList, userProfileAllergenIds, safeToConsume>>
    /\ UNCHANGED <<view, pageVars, storedProfile, lastWrite, lookups, analyses,
                   lateResult, analysisFailedFor, formVars, routeVars, tabVars>>

-----------------------------------------------------------------------------
(* The application *)

RouteIdle ==
    /\ routeRequest' = <<>>
    /\ routeUpstream' = None
    /\ routeResponse' = None

\* The home page is shown: the form as mounted, no page, no request.
InitState ==
    /\ view = "home"
    /\ instances = [t \in Tabs |-> [userAllergens |-> <<>>, isProfileLoaded |-> FALSE]]
    /\ kept = {}
    /\ barcode = <<>>
    /\ productInfo = None
    /\ analysisResult = None
    /\ isLoadingProduct = TRUE
    /\ isLoadingAnalysis = FALSE
    /\ errorProduct = null
    /\ errorAnalysis = null
    /\ userAllergens = <<>>
    /\ isProfileLoaded = FALSE
    /\ lastWrite = "none"
    /\ lookups = EmptyBag
    /\ analyses = EmptyBag
    /\ lateResult = "none"
    /\ analysisFailedFor = None
    /\ isCameraOpen = FALSE
    /\ formBarcode = <<>>
    /\ formProductName = ""
    /\ formIngredients = ""
    /\ formDescription = ""
    /\ isFetchingBarcode = FALSE
    /\ barcodeError = null
    /\ barcodeWarning = null
    /\ lastFetchedBarcode = None
    /\ lastFetchCall = None
    /\ formErrors = {}
    /\ submitPending = FALSE
    /\ onSubmitData = None
    /\ hasCameraPermission = None
    /\ cameraError = null
    /\ cameraStarting = FALSE
    /\ routeRequest = <<>>
    /\ routeUpstream = None
    /\ routeResponse = None

Init == InitState /\ storedProfile \in StoredProfiles /\ ReportIdle

\* The user opens /product/<b>: the form (or the raw API answer) goes away and
\* a page instance mounts.
OpenProduct(b) ==
    /\ view # "product"
    /\ b # <<>> => InFlight < MaxInFlight
    /\ view' = "product"
    /\ PageMount(b, Orphan(lookups, "form"))
    /\ FormMounted
    /\ RouteIdle
    /\ lateResult' = "none"
    /\ UNCHANGED <<storedProfile, lastWrite>>
    /\ UNCHANGED <<reportVars, tabVars>>

\* params.barcode changes under the mounted page: the fetch effect runs again.
ParamChange(b) ==
    /\ view = "product"
    /\ b # barcode
    /\ b # <<>> => InFlight < MaxInFlight
    /\ barcode' = b
    /\ FetchEffect(b, lookups)
    /\ lateResult' = "none"
    /\ UNCHANGED <<view, productInfo, analysisResult, isLoadingAnalysis, errorAnalysis,
                   userAllergens, isProfileLoaded, storedProfile, lastWrite, analyses,
                   analysisFailedFor, formVars, routeVars>>
    /\ UNCHANGED <<reportVars, tabVars>>

\* The answer to a lookup in flight reaches the page that issued it.
PageLookupDeliver(item, out) ==
    /\ item.client = "page"
    /\ IF /\ UpdatesApply(item)
          /\ out # None
          /\ Ok(Val(out).status)
          /\ AnalysisEffectThrows(Some(ProductInfoOf(Val(out).body, item.barcode)),
                                  isProfileLoaded)
       THEN \* the effect's exception is caught by nothing: the page is replaced
            /\ view' = "error"
            /\ PageUnmounted
            /\ lookups' = Orphan(Settle(lookups, item), "page")
            /\ analyses' = OrphanAll(analyses)
       ELSE /\ IF UpdatesApply(item)
               THEN /\ PageLookupResult(item, out)
                    /\ UNCHANGED <<barcode, userAllergens, isProfileLoaded>>
               ELSE UNCHANGED <<pageVars, analyses, analysisFailedFor>>
            /\ lookups' = Settle(lookups, item)
            /\ UNCHANGED view
    /\ lateResult' = IF item.live THEN "none" ELSE item.client
    /\ UNCHANGED <<storedProfile, lastWrite, formVars, routeVars>>
    /\ UNCHANGED <<reportVars, tabVars>>

\* An analysis in flight returns or throws.
PageAnalysisDeliver(item, out) ==
    /\ IF UpdatesApply(item)
       THEN /\ PageAnalysisResult(item, out)
            /\ UNCHANGED <<barcode, productInfo, isLoadingProduct, errorProduct,
                           userAllergens, isProfileLoaded>>
       ELSE UNCHANGED <<pageVars, analysisFailedFor>>
    /\ analyses' = Settle(analyses, item)
    /\ lateResult' = IF item.live THEN "none" ELSE "page"
    /\ UNCHANGED <<view, storedProfile, lastWrite, lookups, formVars, routeVars>>
    /\ UNCHANGED <<reportVars, tabVars>>

\* The user goes (back) to the home page: the page instance unmounts and the
\* form mounts.
NavigateHome ==
    /\ view # "home"
    /\ view' = "home"
    /\ PageUnmounted
    /\ FormMounted
    /\ RouteIdle
    /\ lookups' = Orphan(lookups, "page")
    /\ analyses' = OrphanAll(analyses)
    /\ lateResult' = "none"
    /\ lastWrite' = "none"
    /\ UNCHANGED storedProfile
    /\ UNCHANGED <<reportVars, tabVars>>

\* toggleCameraScan (lines 213-225); its button is disabled while fetching.
toggleCameraScan ==
    /\ view = "home"
    /\ ~isFetchingBarcode
    /\ isCameraOpen' = ~isCameraOpen
    /\ IF ~isCameraOpen
       THEN \* opening: the camera effect calls startScanning (lines 147-196)
            /\ barcodeError' = null /\ barcodeWarning' = null
            /\ cameraError' = null
            /\ cameraStarting' = TRUE
       ELSE UNCHANGED <<barcodeError, barcodeWarning, cameraError, cameraStarting>>
    /\ lateResult' = "none"
    /\ UNCHANGED <<view, pageVars, storedProfile, lastWrite, lookups, analyses, analysisFailedFor,
                   formBarcode, formProductName, formIngredients, formDescription,
                   isFetchingBarcode, lastFetchedBarcode, lastFetchCall, formErrors,
                   submitPending, hasCameraPermission, routeVars>>
    /\ UNCHANGED <<reportVars, tabVars>>
    /\ onSubmitData' = None

\* The scanner decodes the text b (lines 160-166).
ScanResult(b) ==
    /\ view = "home"
    /\ isCameraOpen
    /\ ~BlankBarcode(b) => InFlight < MaxInFlight
    /\ formBarcode' = b
    /\ isCameraOpen' = FALSE
    /\ handleBarcodeFetch(b)
    /\ lateResult' = "none"
    /\ UNCHANGED <<view, pageVars, storedProfile, lastWrite, analyses, analysisFailedFor,
                   formProductName, formIngredients, formDescription, formErrors,
                   submitPending, hasCameraPermission, cameraError,
                   cameraStarting, routeVars>>
    /\ UNCHANGED <<reportVars, tabVars>>
    /\ onSubmitData' = None

\* The answer to a lookup in flight reaches the form that issued it.
FormLookupDeliver(item, out) ==
    /\ item.client = "form"
    /\ IF UpdatesApply(item)
       THEN /\ FormLookupResult(item, out)
            /\ IF submitPending
               THEN \* handleFormSubmit goes on after its await (lines 238-267)
                    Validate([FormValues EXCEPT !.productName = formProductName',
                                                !.ingredients = formIngredients',
                                                !.productDescription = formDescription'])
               ELSE /\ formErrors' = IF LookupSucceeds(out)
                                     THEN SchemaErrors(formIngredients') ELSE formErrors
                    /\ onSubmitData' = None
            /\ submitPending' = FALSE
       ELSE /\ onSubmitData' = None
            /\ UNCHANGED <<formProductName, formIngredients, formDescription,
                           isFetchingBarcode, barcodeError, barcodeWarning,
                           lastFetchedBarcode, formErrors, submitPending>>
    /\ lookups' = Settle(lookups, item)
    /\ lateResult' = IF item.live THEN "none" ELSE item.client
    /\ UNCHANGED <<view, pageVars, storedProfile, lastWrite, analyses, analysisFailedFor,
                   isCameraOpen, formBarcode, lastFetchCall, hasCameraPermission,
                   cameraError, cameraStarting, routeVars>>
    /\ UNCHANGED <<reportVars, tabVars>>

\* What the user types into the fields.
TypedBarcodes == {<<>>, <<"1">>, <<" ", "1", " ">>}
TypedNames == {"", "Oat Crackers"}
TypedIngredients == {"", " ", "oats, salt"}
TypedDescriptions == {"", "crispy"}

CameraDeniedMsg == "Camera access denied. Please enable camera permissions in your browser settings to use the scanner."

\* The steps of the form leave the rest of the application alone.
FormStep ==
    /\ view = "home"
    /\ lateResult' = "none"
    /\ UNCHANGED <<view, pageVars, storedProfile, lastWrite, analyses, analysisFailedFor,
                   routeVars, reportVars, tabVars>>

\* The user types b into the barcode field (enabled by line 297), and the
\* watch effect (lines 104-127) runs: clearing the field after a lookup
\* succeeded resets the form.
TypeBarcode(b) ==
    /\ FormStep
    /\ ~isCameraOpen /\ ~isFetchingBarcode
    /\ b # formBarcode
    /\ IF Trim(b) = <<>>
       THEN /\ IF lastFetchedBarcode # None
               THEN /\ formBarcode' = <<>>
                    /\ formProductName' = ""
                    /\ formIngredients' = ""
                    /\ formDescription' = ""
                    /\ formErrors' = {}
               ELSE /\ formBarcode' = b
                    /\ UNCHANGED <<formProductName, formIngredients, formDescription,
                                   formErrors>>
            /\ lastFetchedBarcode' = None
            /\ barcodeError' = null
            /\ barcodeWarning' = null
            /\ isFetchingBarcode' = FALSE
       ELSE /\ formBarcode' = b
            /\ UNCHANGED <<formProductName, formIngredients, formDescription, formErrors,
                           lastFetchedBarcode, barcodeError, barcodeWarning,
                           isFetchingBarcode>>
    /\ UNCHANGED <<isCameraOpen, lastFetchCall, submitPending,
                   hasCameraPermission, cameraError, cameraStarting, lookups>>
    /\ onSubmitData' = None

\* The user types into the product name field (enabled by line 371); a field
\* that shows an error is validated again on change.
TypeProductName(text) ==
    /\ FormStep
    /\ ~isCameraOpen /\ ~isFetchingBarcode
    /\ text # formProductName
    /\ formProductName' = text
    /\ formErrors' = formErrors \ {"productName"}
    /\ UNCHANGED <<isCameraOpen, formBarcode, formIngredients, formDescription,
                   isFetchingBarcode, barcodeError, barcodeWarning, lastFetchedBarcode,
                   lastFetchCall, submitPending, hasCameraPermission,
                   cameraError, cameraStarting, lookups>>
    /\ onSubmitData' = None

\* The user types into the ingredients field (enabled by line 388).
TypeIngredients(text) ==
    /\ FormStep
    /\ ~isCameraOpen /\ ~isFetchingBarcode
    /\ text # formIngredients
    /\ formIngredients' = text
    /\ formErrors' = IF "ingredients" \in formErrors
                     THEN (formErrors \ {"ingredients"}) \cup SchemaErrors(text)
                     ELSE formErrors
    /\ UNCHANGED <<isCameraOpen, formBarcode, formProductName, formDescription,
                   isFetchingBarcode, barcodeError, barcodeWarning, lastFetchedBarcode,
                   lastFetchCall, submitPending, hasCameraPermission,
                   cameraError, cameraStarting, lookups>>
    /\ onSubmitData' = None

\* The user types into the description field (enabled by line 406).
TypeDescription(text) ==
    /\ FormStep
    /\ ~isCameraOpen /\ ~isFetchingBarcode
    /\ text # formDescription
    /\ formDescription' = text
    /\ UNCHANGED <<isCameraOpen, formBarcode, formProductName, formIngredients,
                   isFetchingBarcode, barcodeError, barcodeWarning, lastFetchedBarcode,
                   lastFetchCall, formErrors, submitPending,
                   hasCameraPermission, cameraError, cameraStarting, lookups>>
    /\ onSubmitData' = None

\* handleFormSubmit up to its await or, without lookup, to its end
\* (lines 227-267).  isLoading is not passed by AllergenAlertApp (line 18).
handleFormSubmit ==
    LET currentBarcode == Trim(formBarcode)
    IN  IF SubmitLooksUp(currentBarcode)
        THEN /\ handleBarcodeFetch(currentBarcode)
             /\ submitPending' = TRUE
             /\ formErrors' = {}
             /\ onSubmitData' = None
        ELSE /\ Validate(FormValues)
             /\ UNCHANGED <<lookups, isFetchingBarcode, barcodeError, barcodeWarning,
                            lastFetchedBarcode, lastFetchCall, submitPending>>

\* The user submits the form (button enabled by line 413):
\* form.handleSubmit(handleFormSubmit) (line 282) runs the resolver first and
\* calls handleFormSubmit only when the schema holds.
Submit ==
    /\ FormStep
    /\ ~isCameraOpen /\ ~isFetchingBarcode
    /\ InFlight < MaxInFlight
    /\ IF SchemaErrors(formIngredients) # {}
       THEN /\ formErrors' = SchemaErrors(formIngredients)
            /\ onSubmitData' = None
            /\ UNCHANGED <<lookups, isFetchingBarcode, barcodeError, barcodeWarning,
                           lastFetchedBarcode, lastFetchCall, submitPending>>
       ELSE handleFormSubmit
    /\ UNCHANGED <<isCameraOpen, formBarcode, formProductName, formIngredients,
                   formDescription, hasCameraPermission, cameraError, cameraStarting>>

\* `disabled={isCameraOpen || isFetchingBarcode || isLoading}` of the barcode,
\* product name and ingredients inputs (lines 297, 371, 388)
InputsDisabled == isCameraOpen \/ isFetchingBarcode

\* getUserMedia resolves (lines 149-150).
CameraGranted ==
    /\ FormStep
    /\ cameraStarting
    /\ hasCameraPermission' = Some(TRUE)
    /\ cameraStarting' \in BOOLEAN
    /\ UNCHANGED <<isCameraOpen, formBarcode, formProductName, formIngredients,
                   formDescription, isFetchingBarcode, barcodeError, barcodeWarning,
                   lastFetchedBarcode, lastFetchCall, formErrors, submitPending,
                   cameraError, lookups>>
    /\ onSubmitData' = None

\* setIsCameraOpen after a failure leaving the camera view open.
CameraOpenAfterFailureSame(open) == open

\* `setIsCameraOpen(false)` of the catch block (line 193)
CameraOpenAfterFailure(open) == FALSE

\* getUserMedia or play rejects: permission denied or no usable device
\* (the catch block, lines 182-194).
CameraFails ==
    /\ FormStep
    /\ cameraStarting
    /\ hasCameraPermission' = Some(FALSE)
    /\ cameraError' = CameraDeniedMsg
    /\ isCameraOpen' = CameraOpenAfterFailure(isCameraOpen)
    /\ cameraStarting' \in BOOLEAN
    /\ UNCHANGED <<formBarcode, formProductName, formIngredients, formDescription,
                   isFetchingBarcode, barcodeError, barcodeWarning, lastFetchedBarcode,
                   lastFetchCall, formErrors, submitPending, lookups>>
    /\ onSubmitData' = None

\* The browser requests /api/barcode?barcode=<b> itself: the document, and
\* with it every component and every callback in flight, goes away.
DirectRequest(b) ==
    /\ view' = "api"
    /\ PageUnmounted
    /\ FormMounted
    /\ lookups' = EmptyBag
    /\ analyses' = EmptyBag
    /\ routeRequest' = b
    /\ routeUpstream' = None
    /\ routeResponse' = None
    /\ lateResult' = "none"
    /\ UNCHANGED <<storedProfile, lastWrite>>
    /\ UNCHANGED <<reportVars, tabVars>>

\* The route answers the browser's own request.
DirectAnswer(up) ==
    /\ view = "api"
    /\ routeResponse = None
    /\ RouteGET(routeRequest, up)
    /\ UNCHANGED <<view, pageVars, storedProfile, lastWrite, lookups, analyses, lateResult,
                   analysisFailedFor, formVars>>
    /\ UNCHANGED <<reportVars, tabVars>>

\* The user opens /profile: UserProfileClient mounts and its hook loads the
\* stored record.  The next render calls userAllergens.includes (line 55),
\* which throws when the value loaded is not an array: the error boundary
\* replaces the page.
OpenProfile ==
    /\ view # "profile"
    /\ LET v == LoadedValue(storedProfile)
       IN  IF v.type = "array"
           THEN /\ view' = "profile"
                /\ userAllergens' = v.items
                /\ isProfileLoaded' = TRUE
           ELSE /\ view' = "error"
                /\ userAllergens' = <<>>
                /\ isProfileLoaded' = FALSE
    /\ PageState
    /\ FormMounted
    /\ RouteIdle
    /\ lookups' = OrphanAll(lookups)
    /\ analyses' = OrphanAll(analyses)
    /\ lateResult' = "none"
    /\ lastWrite' = "none"
    /\ UNCHANGED storedProfile
    /\ UNCHANGED <<reportVars, tabVars>>

\* addUserAllergen(allergenId) (lines 38-47).
addUserAllergen(id, writeOk) ==
    /\ view = "profile"
    /\ userAllergens' = Added(userAllergens, id)
    /\ IF ~Includes(userAllergens, id)
       THEN saveProfile(userAllergens', writeOk)
       ELSE UNCHANGED <<storedProfile, lastWrite>>
    /\ lateResult' = "none"
    /\ UNCHANGED <<view, barcode, productInfo, analysisResult, isLoadingProduct,
                   isLoadingAnalysis, errorProduct, errorAnalysis, isProfileLoaded,
                   lookups, analyses, analysisFailedFor, formVars, routeVars>>
    /\ UNCHANGED <<reportVars, tabVars>>

\* removeUserAllergen(allergenId) (lines 49-55).
removeUserAllergen(id, writeOk) ==
    /\ view = "profile"
    /\ userAllergens' = Removed(userAllergens, id)
    /\ saveProfile(userAllergens', writeOk)
    /\ lateResult' = "none"
    /\ UNCHANGED <<view, barcode, productInfo, analysisResult, isLoadingProduct,
                   isLoadingAnalysis, errorProduct, errorAnalysis, isProfileLoaded,
                   lookups, analyses, analysisFailedFor, formVars, routeVars>>
    /\ UNCHANGED <<reportVars, tabVars>>

Next ==
    \/ \E b \in PageBarcodes : OpenProduct(b)
    \/ \E b \in PageBarcodes : ParamChange(b)
    \/ \E item \in BagToSet(lookups) : \E out \in FetchOutcomes(item.barcode) :
          PageLookupDeliver(item, out)
    \/ \E item \in BagToSet(analyses) : \E out \in AnalysisOutcomes :
          PageAnalysisDeliver(item, out)
    \/ NavigateHome
    \/ toggleCameraScan
    \/ \E b \in Barcodes : ScanResult(b)
    \/ \E item \in BagToSet(lookups) : \E out \in FetchOutcomes(item.barcode) :
          FormLookupDeliver(item, out)
    \/ \E b \in Barcodes : DirectRequest(b)
    \/ \E up \in ClientUpstream : DirectAnswer(up)

Spec == Init /\ [][Next]_vars

\* The lookup route alone, over every upstream behaviour.
NextRoute ==
    \/ \E b \in Barcodes : DirectRequest(b)
    \/ \E up \in UpstreamOutcomes : DirectAnswer(up)

SpecRoute == Init /\ [][NextRoute]_vars

\* The application started from any record, also one that is JSON but not an
\* array.
InitAnyRecord ==
    InitState /\ storedProfile \in StoredProfiles \cup {Some(<<"{", "}">>)} /\ ReportIdle

SpecAnyRecord == InitAnyRecord /\ [][Next]_vars

\* The entry form alone: typing, submitting, scanning and the camera.
InitForm == InitState /\ storedProfile = None /\ ReportIdle

NextForm ==
    \/ \E b \in TypedBarcodes : TypeBarcode(b)
    \/ \E text \in TypedNames : TypeProductName(text)
    \/ \E text \in TypedIngredients : TypeIngredients(text)
    \/ \E text \in TypedDescriptions : TypeDescription(text)
    \/ Submit
    \/ toggleCameraScan
    \/ CameraGranted
    \/ CameraFails
    \/ \E b \in Barcodes : ScanResult(b)
    \/ \E item \in BagToSet(lookups) : \E out \in FetchOutcomes(item.barcode) :
          FormLookupDeliver(item, out)

SpecForm == InitForm /\ [][NextForm]_vars

\* The profile editor alone, from every kind of stored record: absent, empty,
\* not JSON, a truncated array, JSON that is not an array, and the empty array.
InitialRecords ==
    {None, Some(<<>>), Some(<<"oops">>), Some(<<"[", "\"", "milk", "\"">>),
     Some(<<"{", "}">>), Some(<<"null">>), Some(Stringify(<<>>))}

InitProfile == InitState /\ storedProfile \in InitialRecords /\ ReportIdle

NextProfile ==
    \/ OpenProfile
    \/ \E id \in ProfileIds : \E writeOk \in BOOLEAN : addUserAllergen(id, writeOk)
    \/ \E id \in ProfileIds : \E writeOk \in BOOLEAN : removeUserAllergen(id, writeOk)
    \/ NavigateHome

SpecProfile == InitProfile /\ [][NextProfile]_vars

\* Two editor tabs alone, adding and removing in any order.
NextTabs ==
    \/ \E t \in Tabs : TabLoad(t)
    \/ \E t \in Tabs : \E id \in ProfileIds : TabAdd(t, id)
    \/ \E t \in Tabs : \E id \in ProfileIds : TabRemove(t, id)

SpecTabs == Init /\ [][NextTabs]_vars

\* The report component alone: AllergenReport is rendered for every list of
\* detected names and every profile it can be given as props.  The icons and
\* the marks do not depend on the verdict, which is the warning here.
InitReport ==
    /\ InitState
    /\ storedProfile = None
    /\ allergensList \in DetectedLists(MaxDetected)
    /\ userProfileAllergenIds \in ReportProfiles
    /\ rendered = <<>>
    /\ safeToConsume = FALSE

NextReport == RenderItem

SpecReport == InitReport /\ [][NextReport]_vars

\* The report component given detected names that are the keys of
\* allergenIcons themselves, as declared.
InitKeywords ==
    /\ InitState
    /\ storedProfile = None
    /\ allergensList \in {<<allergenIcons[k].key>> : k \in DOMAIN allergenIcons}
    /\ userProfileAllergenIds \in ReportProfiles
    /\ rendered = <<>>
    /\ safeToConsume = FALSE

\* The report component given either verdict with every shorter list of
\* detected names and every profile.
InitVerdict ==
    /\ InitState
    /\ storedProfile = None
    /\ allergensList \in DetectedLists(MaxDetected - 1)
    /\ userProfileAllergenIds \in ReportProfiles
    /\ rendered = <<>>
    /\ safeToConsume \in BOOLEAN

SpecVerdict == InitVerdict /\ [][NextReport]_vars

SpecKeywords == InitKeywords /\ [][NextReport]_vars

-----------------------------------------------------------------------------
(* Properties of the product page, the form and the route (Spec) *)

\* The analysis calls of the mounted page instance that have not returned.
LiveAnalyses == [item \in {a \in BagToSet(analyses) : a.live} |-> analyses[item]]

\* C1: no analysis call is made for a product whose ingredients or name are
\* empty: every call of analyzeProductAllergens that has not returned has an
\* input with non-empty ingredients and a non-empty product name (a call is in
\* flight from the step that makes it, so this covers every call made).
C1_NoAnalysisWithoutIngredients ==
    \A item \in BagToSet(analyses) :
        /\ item.input.ingredients \notin {"", undefined, null}
        /\ item.input.productName \notin {"", undefined, null}

\* C1 witness: the page holds a product with empty ingredients, the analysis
\* effect ran for it and no analysis call was made.
C1_Witness ==
    /\ view = "product"
    /\ productInfo # None
    /\ Val(productInfo).ingredients = ""
    /\ Val(productInfo).productName # ""
    /\ isProfileLoaded
    /\ errorAnalysis = MissingDataMsg
    /\ analyses = EmptyBag

\* C2 (as claimed): every analysis result the page holds has
\* allergensList empty => containsAllergens = false, and
\* containsAllergens = false => safeToConsume = true.
C2_ResultInvariant ==
    analysisResult # None =>
        /\ Val(analysisResult).allergensList = <<>> => ~Val(analysisResult).containsAllergens
        /\ ~Val(analysisResult).containsAllergens => Val(analysisResult).safeToConsume

\* C3 (as claimed): fail-closed.  While errorAnalysis reports the failure of
\* the analysis of the product shown (no analysis started since), no result is
\* held and the error is set.
C3_FailClosed ==
    (/\ analysisFailedFor # None
     /\ productInfo # None
     /\ Val(analysisFailedFor) = Val(productInfo).barcode)
    => (analysisResult = None /\ errorAnalysis # null)

\* C4 (as claimed): at most one analysis call of the mounted page is
\* outstanding at any time.
C4_OneAnalysisInFlight == BagCardinality(LiveAnalyses) <= 1

C6_EmptyBarcodeNoRequest ==
    /\ (routeResponse # None /\ routeRequest = <<>>) =>
          (Val(routeResponse).status = 400 /\ ~Val(routeResponse).upstreamCalled)
    /\ (view = "product" /\ barcode = <<>>) => (errorProduct # null /\ ~isLoadingProduct)
    /\ \A item \in BagToSet(lookups) :
          /\ item.client = "page" => item.barcode # <<>>
          /\ item.client = "form" => Trim(item.barcode) # <<>>
    /\ (lastFetchCall # None /\ Trim(Val(lastFetchCall)) = <<>>) =>
          (~isFetchingBarcode /\ lastFetchedBarcode = None)

\* C6 witness: handleBarcodeFetch was called with a whitespace-only barcode
\* and nothing is in flight.
C6_Witness ==
    /\ view = "home"
    /\ lastFetchCall = Some(<<" ">>)
    /\ lookups = EmptyBag
    /\ ~isFetchingBarcode

\* C6, the page's case: mounted with an empty barcode, nothing requested.
C6_WitnessPage ==
    /\ view = "product"
    /\ barcode = <<>>
    /\ errorProduct = NoBarcodeMsg
    /\ lookups = EmptyBag

\* C6, the route's case: an empty barcode answered with 400.
C6_WitnessRoute ==
    /\ routeResponse # None
    /\ routeRequest = <<>>
    /\ Val(routeResponse).status = 400

\* C12 (as claimed): when the product shown has a name but empty
\* ingredients, the page is not in the analysis-error state (errorAnalysis is
\* null, no 'Allergen Analysis Error' alert) and shows 'Analysis Not
\* Performed'.
C12_PartialDataNotError ==
    (/\ view = "product"
     /\ PageScreen = "product"
     /\ isProfileLoaded
     /\ Truthy(Val(productInfo).productName)
     /\ ~Truthy(Val(productInfo).ingredients))
    => (errorAnalysis = null /\ ~ShowsAnalysisError /\ ShowsAnalysisNotPerformed)

-----------------------------------------------------------------------------
(* Properties of the lookup route (SpecRoute) *)

\* The route has answered a request for which it called the upstream database.
RouteAnswered == routeResponse # None /\ Val(routeResponse).upstreamCalled
RouteUp == Val(routeUpstream)
RouteBody == Val(routeResponse).body
NoProductFields ==
    /\ RouteBody.productName = undefined
    /\ RouteBody.ingredients = undefined
    /\ RouteBody.productDescription = undefined
    /\ RouteBody.warning = undefined
\* The upstream database answered successfully with a JSON object.
UpstreamObject ==
    RouteAnswered /\ RouteUp.reachable /\ RouteUp.status = 200 /\ RouteUp.body = "object"
\* ... that holds a product.
UpstreamProduct == UpstreamObject /\ RouteUp.dataStatus # 0 /\ RouteUp.product # None
Present(s) == s \notin {undefined, ""}

\* C7: when the upstream database answers successfully but reports no product
\* (status 0 or no product object), the route answers 404 with an error
\* message and no product fields.
C7_NotFound ==
    (UpstreamObject /\ (RouteUp.dataStatus = 0 \/ RouteUp.product = None)) =>
        /\ Val(routeResponse).status = 404
        /\ Present(RouteBody.error)
        /\ NoProductFields

\* C7 witness: the upstream object has status 0 (and a product object) and the
\* route answered 404.
C7_Witness ==
    /\ UpstreamObject
    /\ RouteUp.dataStatus = 0
    /\ RouteUp.product # None
    /\ Val(routeResponse).status = 404

\* C8: an upstream answer with non-success status s is answered with an error
\* body of status s; an unreachable upstream or an unparsable body with an
\* error body of status 500; product fields are returned in neither case.
C8_UpstreamError ==
    /\ (RouteAnswered /\ RouteUp.reachable /\ ~(RouteUp.status \in 200..299)) =>
          /\ Val(routeResponse).status = RouteUp.status
          /\ Present(RouteBody.error)
          /\ NoProductFields
    /\ (RouteAnswered /\ (~RouteUp.reachable
                          \/ (RouteUp.status \in 200..299 /\ RouteUp.body = "invalid"))) =>
          /\ Val(routeResponse).status = 500
          /\ Present(RouteBody.error)
          /\ NoProductFields

\* C8 witness: the upstream database answered 503 and so did the route.
C8_Witness ==
    /\ RouteAnswered
    /\ RouteUp.reachable
    /\ RouteUp.status = 503
    /\ Val(routeResponse).status = 503

\* The value the claim gives a field: the English one when present and
\* non-empty, otherwise the default-locale one, otherwise the default.
Preferred(en, def, default) ==
    IF Present(en) THEN en ELSE IF Present(def) THEN def ELSE default

\* C9: name, ingredients and description of a product are each chosen on
\* their own: English when present and non-empty, else default locale, else
\* 'N/A', '' and absent.
C9_EnglishPreferred ==
    UpstreamProduct =>
        LET p == Val(RouteUp.product) IN
        /\ RouteBody.productName = Preferred(p.product_name_en, p.product_name, "N/A")
        /\ RouteBody.ingredients = Preferred(p.ingredients_text_en, p.ingredients_text, "")
        /\ RouteBody.productDescription =
              Preferred(p.generic_name_en, p.generic_name, undefined)

\* C9 witness: both names present, only default-locale ingredients, no
\* description: the answer takes the English name, the default-locale
\* ingredients and has no description.
C9_Witness ==
    /\ UpstreamProduct
    /\ Val(RouteUp.product).product_name_en = "Oat Crackers"
    /\ Val(RouteUp.product).product_name = "Haferkekse"
    /\ Val(RouteUp.product).ingredients_text_en = ""
    /\ Val(RouteUp.product).ingredients_text = "Hafer, Salz"
    /\ RouteBody.productName = "Oat Crackers"
    /\ RouteBody.ingredients = "Hafer, Salz"
    /\ RouteBody.productDescription = undefined

\* A product name was found upstream; no ingredients text was.
NameFound(p) == Present(p.product_name_en) \/ Present(p.product_name)
IngredientsEmpty(p) == ~Present(p.ingredients_text_en) /\ ~Present(p.ingredients_text)

\* C10 (as claimed): a product with a name but empty ingredients is answered
\* with a success response with ingredients = '' and a warning, and a success
\* response carries a warning only in that case.
C10_PartialSuccess ==
    /\ (UpstreamProduct /\ NameFound(Val(RouteUp.product))
                        /\ IngredientsEmpty(Val(RouteUp.product))) =>
          /\ Val(routeResponse).status \in 200..299
          /\ RouteBody.ingredients = ""
          /\ Present(RouteBody.warning)
          /\ RouteBody.error = undefined
    /\ (routeResponse # None /\ Val(routeResponse).status \in 200..299
                             /\ RouteBody.warning # undefined) =>
          /\ UpstreamProduct
          /\ NameFound(Val(RouteUp.product))
          /\ IngredientsEmpty(Val(RouteUp.product))

\* The route answered with a success status.
RouteSuccess == routeResponse # None /\ Val(routeResponse).status \in 200..299

\* C11 (as claimed): every success response with ingredients = '' carries the
\* warning field.
C11_WarningAlways ==
    (RouteSuccess /\ RouteBody.ingredients = "") => Present(RouteBody.warning)

\* C11 (amended): every success response with ingredients = '' and a product
\* name other than the default 'N/A' carries the warning field.
C11_WarningWhenNamed ==
    (RouteSuccess /\ RouteBody.ingredients = "" /\ RouteBody.productName # "N/A")
        => Present(RouteBody.warning)

\* C11 witness: a success response with a name, a description, ingredients =
\* '' and the warning.
C11_Witness ==
    /\ RouteSuccess
    /\ RouteBody.ingredients = ""
    /\ RouteBody.productName = "Oat Crackers"
    /\ RouteBody.productDescription = "Kekse"
    /\ RouteBody.warning = MissingIngredientsWarning

-----------------------------------------------------------------------------
(* Properties of the profile hook (SpecProfile) *)

NoDuplicates(list) == \A i, j \in DOMAIN list : list[i] = list[j] => i = j
AddStep(id) == \E writeOk \in BOOLEAN : addUserAllergen(id, writeOk)
RemoveStep(id) == \E writeOk \in BOOLEAN : removeUserAllergen(id, writeOk)

\* C13: the profile is a set.  Starting from an empty profile, the list never
\* holds an id twice; it holds id right after add(id) and does not hold id
\* right after remove(id); add(id) on a profile that holds id changes nothing.
C13_ProfileIsSet ==
    /\ [](view = "profile" => NoDuplicates(userAllergens))
    /\ [][\A id \in ProfileIds :
            /\ AddStep(id) => Includes(userAllergens', id)
            /\ RemoveStep(id) => ~Includes(userAllergens', id)
            /\ (AddStep(id) /\ Includes(userAllergens, id)) =>
                  UNCHANGED <<userAllergens, storedProfile>>]_vars

\* C13 witness: three ids were added and the second one removed again.
C13_Witness ==
    /\ view = "profile"
    /\ userAllergens = <<"eggs", "milk">>
    /\ storedProfile = Some(Stringify(<<"eggs", "soy", "milk">>))
    /\ lastWrite = "failed"

\* C14: the profile survives a restart.  While no storage write has failed,
\* loading the persisted record yields the in-memory list in the same order
\* (so a fresh hook instance holds it, again and again), and once an add or
\* remove has written, the record is the JSON array of the list.
C14_SurvivesRestart ==
    (view = "profile" /\ lastWrite # "failed") =>
        /\ LoadedValue(storedProfile) = JSONValue(TRUE, "array", userAllergens)
        /\ lastWrite = "ok" => storedProfile = Some(Stringify(userAllergens))

\* C14 witness: a fresh hook instance (no write yet) holds a list of two ids
\* in the order in which an earlier instance added them.
C14_Witness ==
    /\ view = "profile"
    /\ lastWrite = "none"
    /\ userAllergens = <<"soy", "milk">>

\* The record is missing or corrupt: absent, empty, not JSON, or JSON that is
\* not an array.
MissingOrCorrupt(stored) ==
    \/ stored = None
    \/ ~ParseJSON(Val(stored)).ok
    \/ ParseJSON(Val(stored)).type # "array"

\* C15 (as claimed): for every missing or corrupt record, loading yields an
\* empty profile with isProfileLoaded = true, and no profile operation fails
\* afterwards (the profile editor is never replaced by the error page).
C15_CorruptLoadsEmpty ==
    /\ view # "error"
    /\ (view = "profile" /\ lastWrite = "none" /\ MissingOrCorrupt(storedProfile)) =>
          (userAllergens = <<>> /\ isProfileLoaded)

-----------------------------------------------------------------------------
(* Properties of the serialized profile (Spec) *)

\* The delimiter of a comma-separated text: a comma and a blank.
CommaDelimiter == ", "

\* text is the ids in list order, comma-separated: the ids at the odd
\* positions, a delimiter between every two, and nothing for no ids.
CommaSeparated(text, ids) ==
    /\ Len(text) = (IF ids = <<>> THEN 0 ELSE 2 * Len(ids) - 1)
    /\ \A i \in DOMAIN ids : text[2 * i - 1] = ids[i]
    /\ \A i \in 1..(Len(ids) - 1) : text[2 * i] = CommaDelimiter

\* C16: getSerializedProfile returns the ids of the profile in list order as
\* one comma-separated text (the empty text for an empty profile), and the
\* allergensProfile of every analysis input of the page is that text for the
\* profile the page holds.
C16_SerializedProfile ==
    view = "product" =>
        /\ CommaSeparated(getSerializedProfile(userAllergens), userAllergens)
        /\ \A item \in BagToSet(LiveAnalyses) :
              /\ item.input.allergensProfile = getSerializedProfile(userAllergens)
              /\ CommaSeparated(item.input.allergensProfile, userAllergens)

\* C16 witness: an analysis is in flight for a profile of two ids, with the
\* two ids and the delimiter between them as its allergensProfile.
C16_Witness ==
    /\ view = "product"
    /\ userAllergens = <<"milk", "soy">>
    /\ \E item \in BagToSet(LiveAnalyses) :
          item.input.allergensProfile = <<"milk", ", ", "soy">>

-----------------------------------------------------------------------------
(* Properties of the allergen report and the keyword lookup (SpecReport) *)

\* The name of the i-th rendered item, lowercased.
LowerName(i) == ToLowerCase(allergensList[i])

\* The places in the table of the keywords that occur in the i-th name.
KeywordsIn(i) ==
    LET lower == LowerName(i)
    IN  {k \in DOMAIN allergenIcons : StringIncludes(lower, allergenIcons[k].key)}

\* The icons of the table.
TaxonomyIcons == {allergenIcons[k].icon : k \in DOMAIN allergenIcons}

\* C17: getAllergenIcon is total.  Every rendered item has an icon of the
\* table (the lookup never fails and never yields undefined), and a name in
\* which no keyword occurs has the icon of the 'default' entry.
C17_IconTotal ==
    \A i \in DOMAIN rendered :
        LET keywords == KeywordsIn(i)
        IN  /\ rendered[i].icon \in TaxonomyIcons
            /\ keywords = {} => rendered[i].icon = "HelpCircle"

\* C17 witness: two names without a keyword, one of them empty, were rendered
\* with the default icon.
C17_Witness ==
    /\ allergensList = <<<<"S", "e", "s", "a", "m", "e">>, <<>> >>
    /\ Len(rendered) = 2
    /\ rendered[1].icon = "HelpCircle"
    /\ rendered[2].icon = "HelpCircle"

\* The icon each detected name must get: the first keyword in declaration
\* order that occurs in the name, letter case ignored.
ExpectedIcon(name) ==
    CASE name = <<"M", "i", "l", "k">> -> "Milk"
      [] name = <<"S", "o", "y">> -> "Bean"
      [] name = <<"w", "h", "o", "l", "e", " ", "m", "i", "l", "k", " ", "p", "o", "w", "d", "e", "r">> -> "Milk"
      [] name = <<"S", "h", "e", "l", "l", "f", "i", "s", "h">> -> "Fish"
      [] name = <<"P", "E", "A", "N", "U", "T", " ", "B", "u", "t", "t", "e", "r">> -> "Nut"
      [] name = <<"T", "r", "e", "e", " ", "N", "u", "t", "s">> -> "Nut"
      [] name = <<"S", "e", "s", "a", "m", "e">> -> "HelpCircle"
      [] name = <<"H", "a", "r", "d", "-", "b", "o", "i", "l", "e", "d", " ", "E", "G", "G">> -> "Egg"
      [] name = <<>> -> "HelpCircle"

\* C18: getAllergenIcon lowercases its input and returns the entry of the
\* first keyword in declaration order that occurs in it; among several
\* keywords the earliest declared one wins, whatever the letter case.
C18_FirstKeywordWins ==
    \A i \in DOMAIN rendered :
        LET keywords == KeywordsIn(i)
        IN  /\ keywords # {} =>
                  \E k \in keywords :
                      /\ \A j \in keywords : k <= j
                      /\ rendered[i].icon = allergenIcons[k].icon
            /\ rendered[i].icon = ExpectedIcon(allergensList[i])

\* C18 witness: names in which several keywords occur, in upper and mixed
\* case, were rendered: 'PEANUT Butter' (peanut before butter) and
\* 'Shellfish' (fish before shellfish).
C18_Witness ==
    /\ allergensList = <<<<"P", "E", "A", "N", "U", "T", " ", "B", "u", "t", "t", "e", "r">>, <<"S", "h", "e", "l", "l", "f", "i", "s", "h">>>>
    /\ Len(rendered) = 2
    /\ rendered[1].icon = "Nut"
    /\ rendered[2].icon = "Fish"

WholeMilkPowder == <<"w", "h", "o", "l", "e", " ", "m", "i", "l", "k", " ", "p", "o", "w", "d", "e", "r">>

ExpectedToken(id) ==
    CASE id = "peanuts" -> <<"p", "e", "a", "n", "u", "t", "s">>
      [] id = "treeNuts" -> <<"t", "r", "e", "e">>
      [] id = "milk" -> <<"m", "i", "l", "k">>
      [] id = "eggs" -> <<"e", "g", "g", "s">>
      [] id = "soy" -> <<"s", "o", "y">>
      [] id = "wheat" -> <<"w", "h", "e", "a", "t">>
      [] id = "fish" -> <<"f", "i", "s", "h">>
      [] id = "shellfish" -> <<"s", "h", "e", "l", "l", "f", "i", "s", "h">>

\* C20: a detected name is marked as a profile match exactly when some
\* category whose id is in the profile has a display name whose first token,
\* lowercased, occurs in the lowercased detected name; for the detected
\* names 'Milk', 'Soy' and the profile {milk} exactly 'Milk' is marked.
C20_ProfileMatch ==
    /\ \A i \in DOMAIN rendered :
          LET lower == LowerName(i)
          IN  rendered[i].isUserAllergic <=>
                  \E n \in DOMAIN userProfileAllergenIds :
                      StringIncludes(lower, ExpectedToken(userProfileAllergenIds[n]))
    /\ (/\ allergensList = <<<<"M", "i", "l", "k">>, <<"S", "o", "y">>>>
        /\ userProfileAllergenIds = <<"milk">>
        /\ Len(rendered) = 2) =>
          (rendered[1].isUserAllergic /\ ~rendered[2].isUserAllergic)

\* C20 witness: the report of 'Milk' and 'Soy' was rendered for the profile
\* {milk}.
C20_Witness ==
    /\ allergensList = <<<<"M", "i", "l", "k">>, <<"S", "o", "y">>>>
    /\ userProfileAllergenIds = <<"milk">>
    /\ Len(rendered) = 2
    /\ rendered[1].isUserAllergic

-----------------------------------------------------------------------------
(* Properties of the product page started from any record (SpecAnyRecord) *)

\* A live lookup of the page fails in this step / a live analysis fails.
LookupFails ==
    \E item \in BagToSet(lookups) : \E out \in FetchOutcomes(item.barcode) :
        /\ item.live /\ item.client = "page"
        /\ out = None \/ ~Ok(Val(out).status)
        /\ PageLookupDeliver(item, out)
AnalysisFails ==
    \E item \in BagToSet(analyses) : item.live /\ PageAnalysisDeliver(item, None)

\* C21 (as claimed): every failure of the product page becomes the error
\* state of its operation.  A failed lookup leaves isLoadingProduct = false
\* with errorProduct set and errorAnalysis untouched; a failed analysis
\* leaves isLoadingAnalysis = false with errorAnalysis set and errorProduct
\* untouched; no failure escapes uncaught (the page is never replaced by the
\* error page).
C21_FailuresTyped ==
    /\ [][LookupFails =>
            (~isLoadingProduct' /\ errorProduct' # null /\ errorAnalysis' = errorAnalysis)]_vars
    /\ [][AnalysisFails =>
            (~isLoadingAnalysis' /\ errorAnalysis' # null /\ errorProduct' = errorProduct)]_vars
    /\ [](view # "error")

\* The two typed conversions of C21 alone.
C21_TypedConversions ==
    /\ [][LookupFails =>
            (~isLoadingProduct' /\ errorProduct' # null /\ errorAnalysis' = errorAnalysis)]_vars
    /\ [][AnalysisFails =>
            (~isLoadingAnalysis' /\ errorAnalysis' # null /\ errorProduct' = errorProduct)]_vars

-----------------------------------------------------------------------------
(* Properties of the entry form (SpecForm) *)

\* Both fields are filled in: trimmed, neither is empty.
Complete(productName, ingredients) ==
    Truthy(TrimText(productName)) /\ Truthy(TrimText(ingredients))

\* A submission ends in this step: without a lookup, or when its lookup
\* has returned.
SubmitEnds == (Submit /\ ~submitPending') \/ (submitPending /\ ~submitPending')

\* C22: the form hands data to onSubmit only when, after any lookup it
\* performed, the trimmed product name and the trimmed ingredients are both
\* non-empty; a submission that ends with one of them empty sets an inline
\* field error and does not call onSubmit.
C22_SubmitOnlyComplete ==
    /\ [](onSubmitData # None =>
            /\ Complete(Val(onSubmitData).productName, Val(onSubmitData).ingredients)
            /\ Val(onSubmitData) = FormValues)
    /\ [][(SubmitEnds /\ ~Complete(formProductName', formIngredients')) =>
            (formErrors' # {} /\ onSubmitData' = None)]_vars

\* C22 witness: the data of a product that a lookup of the submission filled
\* in was handed to onSubmit.
C22_Witness ==
    /\ onSubmitData # None
    /\ lastFetchedBarcode = Some(<<"1">>)
    /\ lastFetchCall = Some(<<"1">>)
    /\ formBarcode = <<" ", "1", " ">>

\* A lookup of the mounted form fails in this step: error status or network
\* exception.
FormLookupFails ==
    \E item \in BagToSet(lookups) : \E out \in FetchOutcomes(item.barcode) :
        /\ item.live
        /\ ~LookupSucceeds(out)
        /\ FormLookupDeliver(item, out)

\* C23: a failed barcode lookup of the form leaves the product name, the
\* ingredients and the description as they were, sets barcodeError, sets
\* lastFetchedBarcode to null and ends with isFetchingBarcode = false.
C23_FailedLookupKeepsFields ==
    [][FormLookupFails =>
        /\ UNCHANGED <<formProductName, formIngredients, formDescription>>
        /\ barcodeError' # null
        /\ lastFetchedBarcode' = None
        /\ ~isFetchingBarcode']_vars

\* C23 witness: a lookup failed while the three fields held typed text.
C23_Witness ==
    /\ barcodeError # null
    /\ lastFetchCall # None
    /\ ~isFetchingBarcode
    /\ formProductName = "Oat Crackers"
    /\ formIngredients = "oats, salt"
    /\ formDescription = "crispy"
    /\ lastFetchedBarcode = None

C30_SubmitLooksUpFirst ==
    [][(/\ Submit
        /\ Trim(formBarcode) # <<>>
        /\ \/ Some(Trim(formBarcode)) # lastFetchedBarcode
           \/ ~Complete(formProductName, formIngredients)) =>
            lookups' = Issue(lookups, LookupRequest("form", Trim(formBarcode)))]_vars

-----------------------------------------------------------------------------
(* Properties of the icon lookup on its own keywords (SpecKeywords) *)

\* C25 (as claimed): for every keyword k of the table, getAllergenIcon(k)
\* returns the entry declared for k.
C25_KeywordGetsOwnIcon ==
    \A i \in DOMAIN rendered : \A k \in DOMAIN allergenIcons :
        allergensList[i] = allergenIcons[k].key =>
            rendered[i].icon = allergenIcons[k].icon

\* Every keyword other than 'shellfish' gets the entry declared for it.
C25_AllButShellfish ==
    \A i \in DOMAIN rendered : \A k \in DOMAIN allergenIcons :
        (/\ allergensList[i] = allergenIcons[k].key
         /\ allergensList[i] # <<"s", "h", "e", "l", "l", "f", "i", "s", "h">>) =>
            rendered[i].icon = allergenIcons[k].icon

-----------------------------------------------------------------------------
(* Properties of two profile editors sharing the record (SpecTabs) *)

\* C26 (as claimed): after any interleaving of additions and removals made
\* through two hook instances that share the stored record, the record holds
\* every id that was added and not removed afterwards.
C26_RecordHoldsAdded == kept \subseteq RecordIds

\* With one editor tab alone the record holds every id added and not
\* removed afterwards.
C26_SingleInstance ==
    (\E t \in Tabs : ~instances[t].isProfileLoaded) => kept \subseteq RecordIds

-----------------------------------------------------------------------------
(* Properties of the product page under changing barcodes (Spec) *)

\* An analysis of the mounted page returns a result in this step.
ResultArrives(item, out) ==
    /\ UpdatesApply(item)
    /\ out # None
    /\ PageAnalysisDeliver(item, out)

\* The analysis input was taken from the product info.
ComputedFrom(input, info) ==
    /\ input.productName = info.productName
    /\ input.ingredients = info.ingredients
    /\ input.productDescription = info.productDescription
    /\ input.barcode = info.barcode

\* C27 (as claimed): a report the page shows was computed from the product
\* info currently shown: a result that arrives belongs to the product info
\* shown, and once productInfo changes to another product, one without
\* ingredients included, the previous verdict is no longer displayed.
C27_ReportOfShownProduct ==
    /\ [][\A item \in BagToSet(analyses) : \A out \in AnalysisOutcomes :
            ResultArrives(item, out) =>
                /\ productInfo' # None
                /\ ComputedFrom(item.input, Val(productInfo'))]_vars
    /\ [][(productInfo' # None /\ productInfo' # productInfo) => ~ShowsReport']_vars

\* No lookup of the mounted page is in flight.
PageLookupsComplete ==
    \A item \in BagToSet(lookups) : ~(item.client = "page" /\ item.live)

\* C28 (as claimed): when the barcode changed while a lookup was in flight,
\* then once all lookups are complete the product info shown is that of the
\* barcode requested last.
C28_LatestBarcodeShown ==
    (view = "product" /\ PageLookupsComplete /\ PageScreen = "product") =>
        Val(productInfo).barcode = barcode

-----------------------------------------------------------------------------
(* Properties of the report's banner (SpecVerdict) *)

\* C29 (as claimed): the report never shows the 'appears safe for you'
\* banner together with an entry marked 'Profile Match': when some entry
\* rendered is marked, the warning banner is shown.
C29_NoSafeBannerWithMatch ==
    (\E i \in DOMAIN rendered : rendered[i].isUserAllergic) => Banner = "warning"

====
